---------------------------- MODULE Spec2Model ----------------------------
(***************************************************************************)
(* A model of the AlarmServer scheduling core: the time-ordered event      *)
(* queue (std::priority_queue guarded by mtx), Submit (addEvent), List     *)
(* (getEvents), Bootstrap (loadAlarms), the scheduler worker (checkAlarms),*)
(* shutdown (~AlarmSystem) and the recurrence calculator                   *)
(* (calculateNextOccurrence), with the date conversions they rely on.      *)
(*                                                                         *)
(* Time points are whole minutes since 1970-01-01 00:00 UTC: every due     *)
(* time the program builds has tm_sec = 0, so comparing it with the        *)
(* wall clock only depends on the clock's minute.                          *)
(***************************************************************************)
EXTENDS Integers, Sequences, FiniteSets, TLC

(***************************************************************************)
(* Calendar arithmetic behind std::mktime and std::localtime.              *)
(***************************************************************************)
MinutesPerHour == 60
HoursPerDay == 24
MinutesPerDay == HoursPerDay * MinutesPerHour

\* Days since 1970-01-01 of the proleptic Gregorian date y-m-d.  The day is
\* taken linearly, so a day outside the month (0, or 31 in a 30-day month)
\* rolls into the neighbouring month as mktime's normalisation does.
DaysFromCivil(y, m, d) ==
    LET yy  == IF m <= 2 THEN y - 1 ELSE y
        era == yy \div 400
        yoe == yy - era * 400
        mp  == IF m > 2 THEN m - 3 ELSE m + 9
        doy == (153 * mp + 2) \div 5 + d - 1
        doe == yoe * 365 + yoe \div 4 - yoe \div 100 + doy
    IN  era * 146097 + doe - 719468

\* The date <<y, m, d>> of a day count since 1970-01-01, computed from the
\* 400-year era of the day, the day and the year of the era, the day of
\* the year counted from 1 March and the month counted from March.
CivilOf(era, yoe, doy, mp) ==
    << yoe + era * 400 + (IF mp < 10 THEN 0 ELSE 1),
       IF mp < 10 THEN mp + 3 ELSE mp - 9,
       doy - (153 * mp + 2) \div 5 + 1 >>

CivilFromDoy(era, yoe, doy) == CivilOf(era, yoe, doy, (5 * doy + 2) \div 153)

CivilFromYoe(era, doe, yoe) ==
    CivilFromDoy(era, yoe, doe - (365 * yoe + yoe \div 4 - yoe \div 100))

CivilFromDoe(era, doe) ==
    CivilFromYoe(era, doe,
                 (doe - doe \div 1460 + doe \div 36524 - doe \div 146096) \div 365)

CivilFromEra(zz, era) == CivilFromDoe(era, zz - era * 146097)

CivilFromDays(z) == CivilFromEra(z + 719468, (z + 719468) \div 146097)

\* Day of the week of a day count, 0 = Sunday (1970-01-01 was a Thursday).
DayOfWeek(z) == (z + 4) % 7

\* The Sunday on or before day count z.
SundayOnOrBefore(z) == z - DayOfWeek(z)

\* The last Sunday of month m (a 31-day month) of year y, as a day count.
LastSunday(y, m) == SundayOnOrBefore(DaysFromCivil(y, m, 31))

(***************************************************************************)
(* The process's time zone (the TZ environment of localtime and mktime).   *)
(* "UTC" has no daylight saving time.  "Europe/London" is UTC in winter    *)
(* and UTC+1 from 01:00 UTC on the last Sunday of March to 01:00 UTC on    *)
(* the last Sunday of October.                                             *)
(***************************************************************************)
TimeZones == {"UTC", "Europe/London"}

DstSave == MinutesPerHour

\* Whether daylight saving time is in effect in zone tz at time point t,
\* which lies in year y.
IsDstInYear(tz, t, y) ==
    /\ tz = "Europe/London"
    /\ t >= LastSunday(y, 3) * MinutesPerDay + MinutesPerHour
    /\ t <  LastSunday(y, 10) * MinutesPerDay + MinutesPerHour

IsDst(tz, t) ==
    \E y \in { CivilFromDays(t \div MinutesPerDay)[1] } : IsDstInYear(tz, t, y)

\* The broken-down time of the local minute count `local`.
TmOf(date, rest, isdst) ==
    [tm_year  |-> date[1] - 1900,
     tm_mon   |-> date[2] - 1,
     tm_mday  |-> date[3],
     tm_hour  |-> rest \div MinutesPerHour,
     tm_min   |-> rest % MinutesPerHour,
     tm_isdst |-> isdst]

\* (The date is bound as a value, so that it is computed once.)
TmOfLocal(local, isdst) ==
    CHOOSE tm \in { TmOf(date, local % MinutesPerDay, isdst) :
                       date \in { CivilFromDays(local \div MinutesPerDay) } } :
       TRUE

\* std::localtime: the broken-down local time of a time point.
localtime(tz, t) ==
    IF IsDst(tz, t) THEN TmOfLocal(t + DstSave, 1) ELSE TmOfLocal(t, 0)

\* The minute count of the fields of a tm read as they stand.
WallMinutes(tm) ==
    DaysFromCivil(tm.tm_year + 1900, tm.tm_mon + 1, tm.tm_mday) * MinutesPerDay
    + tm.tm_hour * MinutesPerHour + tm.tm_min

\* std::mktime: the time point of a broken-down local time.  Fields out of
\* range are normalised; tm_isdst >= 0 is honoured, so the fields are read
\* as daylight time when tm_isdst = 1 and as standard time when it is 0,
\* whatever is in effect on that date.
mktime(tm) ==
    IF tm.tm_isdst > 0 THEN WallMinutes(tm) - DstSave ELSE WallMinutes(tm)


(***************************************************************************)
(* RecurrenceType, AlarmEvent and the time strings.                        *)
(***************************************************************************)
NONE == 0
DAILY == 1
WEEKLY == 2
MONTHLY == 3
YEARLY == 4

\* A time string "YYYY-MM-DD HH:MM" is the sequence of its numeric fields,
\* <<YYYY, MM, DD, HH, MM>>.  A string that breaks off early has fewer
\* fields, and a field may hold a number the format does not admit.
FieldOk(i, v) ==
    CASE i = 1 -> v \in 0..9999
      [] i = 2 -> v \in 1..12
      [] i = 3 -> v \in 1..31
      [] i = 4 -> v \in 0..23
      [] i = 5 -> v \in 0..59

\* Whether a string has the format YYYY-MM-DD HH:MM.
WellFormed(str) == Len(str) = 5 /\ \A i \in 1..5 : FieldOk(i, str[i])

\* std::get_time(&tm, "%Y-%m-%d %H:%M"): how many leading fields it reads
\* before the input ends or a field is rejected.
RECURSIVE FieldsRead(_, _)
FieldsRead(str, i) ==
    IF i <= 5 /\ i <= Len(str) /\ FieldOk(i, str[i])
    THEN FieldsRead(str, i + 1)
    ELSE i - 1

\* The tm that get_time leaves behind when it has read n fields, starting
\* from std::tm tm = {}: the fields read are stored, the others stay zero.
TmOfFields(str, n) ==
    [tm_year  |-> IF n >= 1 THEN str[1] - 1900 ELSE 0,
     tm_mon   |-> IF n >= 2 THEN str[2] - 1 ELSE 0,
     tm_mday  |-> IF n >= 3 THEN str[3] ELSE 0,
     tm_hour  |-> IF n >= 4 THEN str[4] ELSE 0,
     tm_min   |-> IF n >= 5 THEN str[5] ELSE 0,
     tm_isdst |-> 0]

\* ss >> std::get_time(&tm, ...): the stream's failure is not looked at.
get_time(str) == TmOfFields(str, FieldsRead(str, 1))

\* datetime_utils::parseDateTime
parseDateTime(datetime_str) == mktime(get_time(datetime_str))

\* std::put_time(tm, "%Y-%m-%d %H:%M")
put_time(tm) ==
    << tm.tm_year + 1900, tm.tm_mon + 1, tm.tm_mday, tm.tm_hour, tm.tm_min >>

\* datetime_utils::formatDateTime (the tm is bound as a value, so that
\* localtime is computed once).
formatDateTime(tz, tp) ==
    CHOOSE str \in { put_time(tm) : tm \in { localtime(tz, tp) } } : TRUE

\* recurrenceTypeToString
recurrenceTypeToString(type) ==
    CASE type = DAILY   -> "Daily"
      [] type = WEEKLY  -> "Weekly"
      [] type = MONTHLY -> "Monthly"
      [] type = YEARLY  -> "Yearly"
      [] OTHER          -> "None"

\* struct AlarmEvent
AlarmEvent(id, description, datetime, recurrence) ==
    [id |-> id, description |-> description, datetime |-> datetime,
     recurrence |-> recurrence]

\* operator> with the comparison turned round.
GreaterReversed(a, b) == a.datetime < b.datetime

\* AlarmEvent::operator>
Greater(a, b) == a.datetime > b.datetime

(***************************************************************************)
(* The recurrence calculator.                                              *)
(***************************************************************************)
\* tm->tm_mon += 1, with the carry into tm_year.
NextMonthTm(tm) ==
    IF tm.tm_mon + 1 > 11
    THEN [tm EXCEPT !.tm_mon = 0, !.tm_year = tm.tm_year + 1]
    ELSE [tm EXCEPT !.tm_mon = tm.tm_mon + 1]

\* case RecurrenceType::MONTHLY: one calendar month later.
AddMonth(tz, time) == mktime(NextMonthTm(localtime(tz, time)))

\* tm->tm_year += 1
NextYearTm(tm) == [tm EXCEPT !.tm_year = tm.tm_year + 1]

\* case RecurrenceType::YEARLY: one calendar year later.
AddYear(tz, time) == mktime(NextYearTm(localtime(tz, time)))

\* The loop of calculateNextOccurrence: while (time <= now) advance by the
\* rule of the recurrence; any other recurrence value returns at once.
RECURSIVE AdvanceUntilFuture(_, _, _, _)
AdvanceUntilFuture(tz, time, recurrence, clock) ==
    IF time > clock THEN time
    ELSE CASE recurrence = DAILY ->
                AdvanceUntilFuture(tz, time + HoursPerDay * MinutesPerHour,
                                   recurrence, clock)
           [] recurrence = WEEKLY ->
                AdvanceUntilFuture(tz, time + HoursPerDay * 7 * MinutesPerHour,
                                   recurrence, clock)
           [] recurrence = MONTHLY ->
                AdvanceUntilFuture(tz, AddMonth(tz, time), recurrence, clock)
           [] recurrence = YEARLY ->
                AdvanceUntilFuture(tz, AddYear(tz, time), recurrence, clock)
           [] OTHER -> time

\* The loop written as while (time < now): a time equal to the clock is
\* taken to be in the future.
RECURSIVE AdvanceWhileBefore(_, _, _, _)
AdvanceWhileBefore(tz, time, recurrence, clock) ==
    IF time >= clock THEN time
    ELSE AdvanceWhileBefore(tz, AdvanceUntilFuture(tz, time, recurrence, time),
                            recurrence, clock)

calculateNextOccurrenceBefore(tz, event, clock) ==
    IF event.recurrence \in {DAILY, WEEKLY, MONTHLY, YEARLY}
    THEN AdvanceWhileBefore(tz, event.datetime, event.recurrence, clock)
    ELSE event.datetime

\* The loop written as an if: a due time in the past advances by one
\* period only.
calculateNextOccurrenceOnce(tz, event, clock) ==
    IF event.datetime > clock THEN event.datetime
    ELSE AdvanceUntilFuture(tz, event.datetime, event.recurrence, event.datetime)

\* AlarmSystem::calculateNextOccurrence, with the clock it reads.
calculateNextOccurrence(tz, event, clock) ==
    AdvanceUntilFuture(tz, event.datetime, event.recurrence, clock)

(***************************************************************************)
(* The event store: std::priority_queue<AlarmEvent, std::vector<...>,      *)
(* std::greater<AlarmEvent>>, a binary heap laid out in a sequence         *)
(* (position i of the vector is index i + 1 here).                         *)
(***************************************************************************)
\* std::__push_heap: move the hole up while its parent compares greater.
RECURSIVE PushHeap(_, _, _)
PushHeap(heap, hole, value) ==
    LET parent == hole \div 2
    IN  IF hole > 1 /\ Greater(heap[parent], value)
        THEN PushHeap([heap EXCEPT ![hole] = heap[parent]], parent, value)
        ELSE [heap EXCEPT ![hole] = value]

\* A push that loses an insertion: it writes over the last element of a
\* queue that is not empty.
PushOverLast(heap, value) ==
    IF heap = << >> THEN << value >>
    ELSE PushHeap(heap, Len(heap), value)

\* priority_queue::push: push_back, then push_heap.
Push(heap, value) == PushHeap(Append(heap, value), Len(heap) + 1, value)

\* priority_queue::top
Top(heap) == heap[1]

\* std::__adjust_heap: move the hole at the root down to a leaf along the
\* children that do not compare greater, then push the value up from there.
RECURSIVE AdjustHeap(_, _, _)
AdjustHeap(heap, hole, value) ==
    LET len   == Len(heap)
        left  == 2 * hole
        right == 2 * hole + 1
    IN  IF right <= len
        THEN LET child == IF Greater(heap[right], heap[left]) THEN left ELSE right
             IN  AdjustHeap([heap EXCEPT ![hole] = heap[child]], child, value)
        ELSE IF left = len
        THEN PushHeap([heap EXCEPT ![hole] = heap[left]], left, value)
        ELSE PushHeap(heap, hole, value)

\* A pop that removes the last element of the underlying vector without
\* moving it to the top first.
PopLast(heap) == SubSeq(heap, 1, Len(heap) - 1)

\* priority_queue::pop: pop_heap, then pop_back.
Pop(heap) ==
    IF Len(heap) = 1 THEN << >>
    ELSE AdjustHeap(SubSeq(heap, 1, Len(heap) - 1), 1, heap[Len(heap)])

\* The events of a queue in the order in which top()/pop() yield them.
RECURSIVE Drain(_)
Drain(heap) ==
    IF heap = << >> THEN << >> ELSE << Top(heap) >> \o Drain(Pop(heap))

\* Lines 62-71 of getEvents: the pair <<desc, formatted due time>> of one
\* event; desc is the description, followed by the recurrence's name for a
\* recurring event.
ListEntry(tz, event) ==
    << IF event.recurrence # NONE
       THEN << event.description, recurrenceTypeToString(event.recurrence) >>
       ELSE << event.description >>,
       formatDateTime(tz, event.datetime) >>

ListEntries(tz, order) == [i \in 1..Len(order) |-> ListEntry(tz, order[i])]

\* AlarmSystem::getEvents on the queue it copies: one pair per event, in
\* the order in which top()/pop() yield them.
getEvents(tz, heap) == ListEntries(tz, Drain(heap))


(***************************************************************************)
(* The persistence layer: the alarms table behind one shared sqlite3       *)
(* connection.                                                             *)
(***************************************************************************)
\* One row of table alarms.
AlarmRow(id, description, datetime, recurrence) ==
    [id |-> id, description |-> description, datetime |-> datetime,
     recurrence |-> recurrence]

\* The id INTEGER PRIMARY KEY AUTOINCREMENT gives the next inserted row.
NextRowid(table) == Len(table) + 1

\* The INSERT of Database::addAlarm (sqlite3_step returning SQLITE_DONE).
InsertAlarm(table, description, datetime, recurrence) ==
    Append(table, AlarmRow(NextRowid(table), description, datetime, recurrence))

\* The UPDATE of Database::updateAlarmDateTime: every row with this id.
UpdateAlarm(table, id, new_datetime) ==
    [i \in 1..Len(table) |->
        IF table[i].id = id
        THEN [table[i] EXCEPT !.datetime = new_datetime]
        ELSE table[i]]

\* Database::loadAlarms: each row as an AlarmEvent, its datetime parsed.
LoadRows(table) ==
    [i \in 1..Len(table) |->
        AlarmEvent(table[i].id, table[i].description,
                   parseDateTime(table[i].datetime), table[i].recurrence)]

\* A loop body that pushes every saved alarm, whether or not it is due.
LoadOneAll(tz, heap, alarm, clock) ==
    Push(heap, AlarmEvent(alarm.id, alarm.description,
                          calculateNextOccurrence(tz, alarm, clock),
                          alarm.recurrence))

\* A loop body that pushes a recurring alarm with the due time it was
\* saved with.
LoadOneAsSaved(tz, heap, alarm, clock) ==
    IF alarm.recurrence # NONE \/ alarm.datetime > clock
    THEN Push(heap, alarm)
    ELSE heap

\* The body of the loop of AlarmSystem::loadAlarms for one saved alarm.
LoadOne(tz, heap, alarm, clock) ==
    IF alarm.recurrence # NONE
    THEN Push(heap, AlarmEvent(alarm.id, alarm.description,
                               calculateNextOccurrence(tz, alarm, clock),
                               alarm.recurrence))
    ELSE IF alarm.datetime > clock
    THEN Push(heap, alarm)
    ELSE heap

\* The loop of AlarmSystem::loadAlarms over the first n saved alarms.
RECURSIVE LoadInto(_, _, _, _)
LoadInto(tz, saved_alarms, n, clock) ==
    IF n = 0 THEN << >>
    ELSE LoadOne(tz, LoadInto(tz, saved_alarms, n - 1, clock),
                 saved_alarms[n], clock)

(***************************************************************************)
(* The state.                                                              *)
(***************************************************************************)
VARIABLES
    tz,         \* the time zone of the process
    now,        \* std::chrono::system_clock::now(), in minutes
    ticks,      \* how often the clock has advanced
    table,      \* the rows of table alarms, in insertion order
    lastRowid,  \* sqlite3_last_insert_rowid of the shared connection
    events,     \* AlarmSystem::events
    mtx,        \* AlarmSystem::mtx: "none" or the thread holding it
    running,    \* AlarmSystem::running
    life,       \* where the AlarmSystem object is in its lifetime
    sub,        \* the addEvent call of each caller thread
    wk,         \* checker_thread's position in checkAlarms, with its locals
    listed,     \* what a getEvents call has just returned to its caller
    calc,       \* a direct call of calculateNextOccurrence
    cout,       \* how many "ALARM: " lines std::cout holds, by description
                \* (counted up to MaxLines)
    cerr        \* how many "Failed to update recurring alarm" lines
                \* std::cerr holds (counted up to MaxLines)

vars == << tz, now, ticks, table, lastRowid, events, mtx, running, life,
           sub, wk, listed, calc, cout, cerr >>

\* The caller threads (the server runs its handlers on several threads);
\* each makes one addEvent call.
Threads == {"t1", "t2"}

\* Bounds of the model: how often the clock advances, and up to how many
\* lines std::cout (per description) and std::cerr are counted.
MaxTicks == 2
MaxLines == 3

\* The clock advances in steps of half a day from ClockStart.
TickMinutes == 12 * MinutesPerHour
ClockStart == parseDateTime(<<2024, 3, 30, 9, 0>>)

\* What each caller may submit: a time string and a recurrence.  The
\* request handler casts any integer to RecurrenceType, 5 among them.
SubmitInputs ==
    [t \in Threads |->
       IF t = "t1"
       THEN { << <<2024, 3, 30, 9, 0>>, DAILY >>,
              << <<2024, 3, 30, 21, 0>>, NONE >> }
       ELSE { << <<2024, 3, 30, 21, 0>>, NONE >>,
              << <<2024, 13, 45, 10, 0>>, NONE >>,
              << <<2024, 3, 29, 9, 0>>, 5 >> }]

\* What table alarms holds when the process starts.
\* The rows an earlier run has left: a one-shot alarm still to come, one due
\* at the minute the process starts, one a day overdue, and a daily alarm
\* two days overdue.
SavedRows ==
    << AlarmRow(1, <<"saved", "a">>, <<2024, 3, 31, 9, 0>>, NONE),
       AlarmRow(2, <<"saved", "b">>, <<2024, 3, 30, 9, 0>>, NONE),
       AlarmRow(3, <<"saved", "c">>, <<2024, 3, 29, 9, 0>>, NONE),
       AlarmRow(4, <<"saved", "d">>, <<2024, 3, 28, 9, 0>>, DAILY) >>

InitialTables == { << >>, SavedRows }

\* The descriptions of all alarms there are.
Descriptions ==
    { << "by", t >> : t \in Threads }
    \cup { << "saved", x >> : x \in {"a", "b", "c", "d"} }

\* std::cout before the worker has printed anything.
NoOutput == [d \in Descriptions |-> 0]

NoEvent == AlarmEvent(0, << >>, 0, NONE)

SubIdle ==
    [pc |-> "idle", description |-> << >>, datetime_str |-> << >>,
     recurrence |-> NONE, tp |-> 0, rowid |-> 0, id |-> 0]

\* The locals of one iteration of checkAlarms: now and next_event, the
\* event as it was popped, the clock calculateNextOccurrence read, the
\* updateAlarmDateTime calls made and whether the last one succeeded.
WkLocals(pc) ==
    [pc |-> pc, now |-> 0, next_event |-> NoEvent, fired |-> NoEvent,
     calcNow |-> 0, calls |-> << >>, updated |-> FALSE]

WkInit == WkLocals("unstarted")

CalcIdle == [pc |-> "unused", event |-> NoEvent, clock |-> 0, result |-> 0]

\* The state at the entry of AlarmSystem::AlarmSystem, its members
\* initialised (running(true), an open Database) and loadAlarms not yet run.
Init ==
    /\ tz \in TimeZones
    /\ now = ClockStart
    /\ ticks = 0
    /\ table \in InitialTables
    /\ lastRowid = 0
    /\ events = << >>
    /\ mtx = "none"
    /\ running = TRUE
    /\ life = "constructing"
    /\ sub = [t \in Threads |-> SubIdle]
    /\ wk = WkInit
    /\ listed = << >>
    /\ calc = CalcIdle
    /\ cout = NoOutput
    /\ cerr = 0

(***************************************************************************)
(* The condition variable AlarmSystem::cv.                                 *)
(***************************************************************************)
Waiting(w) == w.pc \in {"waitIdle", "waitTimed"}

\* A notification that wakes nobody.
NotifyNobody(w) == w

\* cv.notify_one / cv.notify_all: the worker is the only thread that ever
\* waits, and a notification with no thread waiting is dropped.
Notify(w) == IF Waiting(w) THEN [w EXCEPT !.pc = "woken"] ELSE w

(***************************************************************************)
(* The constructor: loadAlarms, then the start of checker_thread.          *)
(***************************************************************************)
Construct ==
    /\ life = "constructing"
    /\ \E loaded \in BOOLEAN :
         IF loaded
         THEN /\ events' = LoadInto(tz, LoadRows(table), Len(table), now)
              /\ life' = "up"
              /\ wk' = WkLocals("loop")
         ELSE \* db->loadAlarms throws: AlarmSystemException leaves the constructor
              /\ life' = "constructFailed"
              /\ UNCHANGED << events, wk >>
    /\ listed' = << >>
    /\ UNCHANGED << cerr, cout, tz, now, ticks, table, lastRowid, mtx, running, sub,
                    calc >>

(***************************************************************************)
(* AlarmSystem::addEvent, called by thread t.                              *)
(***************************************************************************)
Callable == life = "up"

\* Lines 41-42 up to sqlite3_step of Database::addAlarm returning
\* SQLITE_DONE: the time string is parsed, the row is inserted.
AddEventInsert(t) ==
    /\ Callable
    /\ sub[t].pc = "idle"
    /\ \E input \in SubmitInputs[t] :
         LET description == << "by", t >>
         IN  /\ sub' = [sub EXCEPT ![t] =
                          [pc |-> "stepped", description |-> description,
                           datetime_str |-> input[1], recurrence |-> input[2],
                           tp |-> parseDateTime(input[1]),
                           rowid |-> NextRowid(table), id |-> 0]]
             /\ table' = InsertAlarm(table, description, input[1], input[2])
             /\ lastRowid' = NextRowid(table)
    /\ listed' = << >>
    /\ UNCHANGED << cerr, cout, tz, now, ticks, events, mtx, running, life, wk, calc >>

\* An addEvent that pushes and notifies before it writes to the database,
\* so that a failed write leaves the event in the store.
AddEventFailAfterPush(t) ==
    /\ Callable
    /\ sub[t].pc = "idle"
    /\ mtx = "none"
    /\ \E input \in SubmitInputs[t] :
         /\ sub' = [sub EXCEPT ![t] =
                      [pc |-> "failed", description |-> << "by", t >>,
                       datetime_str |-> input[1], recurrence |-> input[2],
                       tp |-> parseDateTime(input[1]), rowid |-> 0, id |-> 0]]
         /\ events' = Push(events, AlarmEvent(0, << "by", t >>,
                                              parseDateTime(input[1]), input[2]))
    /\ wk' = Notify(wk)
    /\ listed' = << >>
    /\ UNCHANGED << cerr, cout, tz, now, ticks, table, lastRowid, mtx, running, life, calc >>

\* Database::addAlarm throws (prepare or step fails): addEvent catches the
\* DatabaseException and throws AlarmSystemException to its caller.
AddEventFail(t) ==
    /\ Callable
    /\ sub[t].pc = "idle"
    /\ \E input \in SubmitInputs[t] :
         sub' = [sub EXCEPT ![t] =
                   [pc |-> "failed", description |-> << "by", t >>,
                    datetime_str |-> input[1], recurrence |-> input[2],
                    tp |-> parseDateTime(input[1]), rowid |-> 0, id |-> 0]]
    /\ listed' = << >>
    /\ UNCHANGED << cerr, cout, tz, now, ticks, table, lastRowid, events, mtx, running,
                    life, wk, calc >>

\* int id = sqlite3_last_insert_rowid(db), a call of its own on the
\* connection that all threads share.
AddEventRowid(t) ==
    /\ sub[t].pc = "stepped"
    /\ sub' = [sub EXCEPT ![t].pc = "haveId", ![t].id = lastRowid]
    /\ listed' = << >>
    /\ UNCHANGED << cerr, cout, tz, now, ticks, table, lastRowid, events, mtx, running,
                    life, wk, calc >>

\* A push step that inserts the event twice.
AddEventPushTwice(t) ==
    /\ sub[t].pc = "haveId"
    /\ mtx = "none"
    /\ events' = Push(Push(events, AlarmEvent(sub[t].id, sub[t].description,
                                              sub[t].tp, sub[t].recurrence)),
                      AlarmEvent(sub[t].id, sub[t].description,
                                 sub[t].tp, sub[t].recurrence))
    /\ sub' = [sub EXCEPT ![t].pc = "pushed"]
    /\ listed' = << >>
    /\ UNCHANGED << cerr, cout, tz, now, ticks, table, lastRowid, mtx, running,
                    life, wk, calc >>

\* Lines 44-47: lock_guard, events.push, unlock.
AddEventPush(t) ==
    /\ sub[t].pc = "haveId"
    /\ mtx = "none"
    /\ events' = Push(events, AlarmEvent(sub[t].id, sub[t].description,
                                         sub[t].tp, sub[t].recurrence))
    /\ sub' = [sub EXCEPT ![t].pc = "pushed"]
    /\ listed' = << >>
    /\ UNCHANGED << cerr, cout, tz, now, ticks, table, lastRowid, mtx, running, life,
                    wk, calc >>

\* Line 48: cv.notify_one(), and the return to the caller.
AddEventNotify(t) ==
    /\ sub[t].pc = "pushed"
    /\ wk' = Notify(wk)
    /\ sub' = [sub EXCEPT ![t].pc = "done"]
    /\ listed' = << >>
    /\ UNCHANGED << cerr, cout, tz, now, ticks, table, lastRowid, events, mtx, running,
                    life, calc >>

(***************************************************************************)
(* AlarmSystem::getEvents, called by any thread.                           *)
(***************************************************************************)
\* A getEvents that drains the queue itself instead of a copy.
ListDraining ==
    /\ Callable
    /\ mtx = "none"
    /\ listed' = << getEvents(tz, events) >>
    /\ events' = << >>
    /\ UNCHANGED << cerr, cout, tz, now, ticks, table, lastRowid, mtx, running,
                    life, sub, wk, calc >>

List ==
    /\ Callable
    /\ mtx = "none"
    /\ listed' = << getEvents(tz, events) >>
    /\ UNCHANGED << cerr, cout, tz, now, ticks, table, lastRowid, events, mtx, running,
                    life, sub, wk, calc >>


(***************************************************************************)
(* AlarmSystem::checkAlarms, run by checker_thread.                        *)
(***************************************************************************)
\* Line 119: while (running).  The locals of the previous iteration are
\* gone.
WLoop ==
    /\ wk.pc = "loop"
    /\ wk' = WkLocals(IF running THEN "lock" ELSE "stopped")
    /\ listed' = << >>
    /\ UNCHANGED << cerr, cout, tz, now, ticks, table, lastRowid, events, mtx, running,
                    life, sub, calc >>

\* A wait on the empty queue that does not release the mutex.
WExamineHoldingLock ==
    /\ wk.pc = "lock"
    /\ mtx = "none"
    /\ events = << >>
    /\ wk' = [wk EXCEPT !.pc = "waitIdle"]
    /\ mtx' = "worker"
    /\ listed' = << >>
    /\ UNCHANGED << cerr, cout, tz, now, ticks, table, lastRowid, events, running,
                    life, sub, calc >>

\* An examination that fires the earliest event whether or not it is due.
WExamineEarly ==
    /\ wk.pc = "lock"
    /\ mtx = "none"
    /\ IF events = << >>
       THEN /\ wk' = [wk EXCEPT !.pc = "waitIdle"]
            /\ UNCHANGED << events, mtx, cout >>
       ELSE LET next_event == Top(events)
            IN  /\ events' = Pop(events)
                /\ cout' = [cout EXCEPT ![next_event.description] =
                                            IF @ < MaxLines THEN @ + 1 ELSE @]
                /\ wk' = [wk EXCEPT
                            !.pc = IF next_event.recurrence # NONE
                                   THEN "fired" ELSE "loop",
                            !.now = now,
                            !.next_event = next_event,
                            !.fired = next_event]
                /\ mtx' = IF next_event.recurrence # NONE
                          THEN "worker" ELSE "none"
    /\ listed' = << >>
    /\ UNCHANGED << cerr, tz, now, ticks, table, lastRowid, running, life,
                    sub, calc >>

\* An examination that unlocks right after the pop, so that the mutex is
\* free while a recurring event is out of the queue.
WExamineUnlocking ==
    /\ wk.pc = "lock"
    /\ mtx = "none"
    /\ IF events = << >>
       THEN /\ wk' = [wk EXCEPT !.pc = "waitIdle"]
            /\ UNCHANGED << events, cout >>
       ELSE LET next_event == Top(events)
            IN  IF next_event.datetime <= now
                THEN /\ events' = Pop(events)
                     /\ cout' = [cout EXCEPT ![next_event.description] =
                                                 IF @ < MaxLines THEN @ + 1 ELSE @]
                     /\ wk' = [wk EXCEPT
                                 !.pc = IF next_event.recurrence # NONE
                                        THEN "fired" ELSE "loop",
                                 !.now = now,
                                 !.next_event = next_event,
                                 !.fired = next_event]
                ELSE /\ wk' = [wk EXCEPT !.pc = "waitTimed",
                                         !.next_event = next_event]
                     /\ UNCHANGED << events, cout >>
    /\ mtx' = "none"
    /\ listed' = << >>
    /\ UNCHANGED << cerr, tz, now, ticks, table, lastRowid, running, life,
                    sub, calc >>

\* Lines 120-134 and 150-152: with the mutex taken, an empty queue enters
\* cv.wait, which releases the mutex; a due earliest event is printed to
\* std::cout and popped (a one-shot event ends the iteration, which
\* unlocks); one not yet due enters cv.wait_until on its due time.
WExamine ==
    /\ wk.pc = "lock"
    /\ mtx = "none"
    /\ IF events = << >>
       THEN /\ wk' = [wk EXCEPT !.pc = "waitIdle"]
            /\ UNCHANGED << events, mtx, cout >>
       ELSE LET next_event == Top(events)
            IN  IF next_event.datetime <= now
                THEN /\ events' = Pop(events)
                     /\ cout' = [cout EXCEPT ![next_event.description] =
                                                 IF @ < MaxLines THEN @ + 1 ELSE @]
                     /\ wk' = [wk EXCEPT
                                 !.pc = IF next_event.recurrence # NONE
                                        THEN "fired" ELSE "loop",
                                 !.now = now,
                                 !.next_event = next_event,
                                 !.fired = next_event]
                     /\ mtx' = IF next_event.recurrence # NONE
                               THEN "worker" ELSE "none"
                ELSE /\ wk' = [wk EXCEPT !.pc = "waitTimed",
                                         !.next_event = next_event]
                     /\ UNCHANGED << events, mtx, cout >>
    /\ listed' = << >>
    /\ UNCHANGED << cerr, tz, now, ticks, table, lastRowid, running, life,
                    sub, calc >>

\* The next occurrence counted from the clock instead of the due time.
RescheduledFromNow(zone, next_event, clock) ==
    [next_event EXCEPT
       !.datetime = calculateNextOccurrence(
                        zone, [next_event EXCEPT !.datetime = clock], clock)]

\* Lines 136-137: next_event.datetime = calculateNextOccurrence(next_event).
Rescheduled(zone, next_event, clock) ==
    [next_event EXCEPT
       !.datetime = calculateNextOccurrence(zone, next_event, clock)]

\* Lines 140-143: the arguments of db->updateAlarmDateTime.
UpdateCall(zone, next_event) ==
    << next_event.id, formatDateTime(zone, next_event.datetime) >>

\* Lines 135-141: the next occurrence is computed and
\* db->updateAlarmDateTime is entered, the mutex still held.
WCalculate ==
    /\ wk.pc = "fired"
    /\ \E next_event \in { Rescheduled(tz, wk.next_event, now) } :
         \E call \in { UpdateCall(tz, next_event) } :
            wk' = [wk EXCEPT
                     !.pc = "updating",
                     !.next_event = next_event,
                     !.calcNow = now,
                     !.calls = Append(wk.calls, call)]
    /\ listed' = << >>
    /\ UNCHANGED << cerr, cout, tz, now, ticks, table, lastRowid, events, mtx, running,
                    life, sub, calc >>

\* A reschedule that pushes the event before it writes, so that a write
\* that throws leaves the event in the store.
WRescheduleAlways ==
    /\ wk.pc = "updating"
    /\ \E written \in BOOLEAN :
         /\ wk' = [wk EXCEPT !.pc = "loop", !.updated = written]
         /\ cerr' = IF written \/ cerr = MaxLines THEN cerr ELSE cerr + 1
         /\ table' = IF written
                     THEN UpdateAlarm(table, wk.next_event.id,
                                      UpdateCall(tz, wk.next_event)[2])
                     ELSE table
    /\ events' = Push(events, wk.next_event)
    /\ mtx' = "none"
    /\ listed' = << >>
    /\ UNCHANGED << cout, tz, now, ticks, lastRowid, running, life, sub,
                    calc >>

\* Lines 141-153: db->updateAlarmDateTime returns or throws; unless it
\* throws, the event is pushed, and if it throws the catch block writes a
\* line to std::cerr; the iteration ends and its unique_lock unlocks.
WReschedule ==
    /\ wk.pc = "updating"
    /\ \E written \in BOOLEAN :
         /\ wk' = [wk EXCEPT !.pc = "loop", !.updated = written]
         /\ cerr' = IF written \/ cerr = MaxLines THEN cerr ELSE cerr + 1
         /\ table' = IF written
                     THEN UpdateAlarm(table, wk.next_event.id,
                                      UpdateCall(tz, wk.next_event)[2])
                     ELSE table
         /\ events' = IF written THEN Push(events, wk.next_event) ELSE events
    /\ mtx' = "none"
    /\ listed' = << >>
    /\ UNCHANGED << cout, tz, now, ticks, lastRowid, running, life, sub,
                    calc >>

\* cv.wait_until reaches its time point.
WTimeout ==
    /\ wk.pc = "waitTimed"
    /\ now >= wk.next_event.datetime
    /\ wk' = [wk EXCEPT !.pc = "woken"]
    /\ listed' = << >>
    /\ UNCHANGED << cerr, cout, tz, now, ticks, table, lastRowid, events, mtx, running,
                    life, sub, calc >>

\* A wait may end with no notification and no timeout (a spurious wakeup).
WSpurious ==
    /\ Waiting(wk)
    /\ wk' = [wk EXCEPT !.pc = "woken"]
    /\ listed' = << >>
    /\ UNCHANGED << cerr, cout, tz, now, ticks, table, lastRowid, events, mtx, running,
                    life, sub, calc >>

\* The wait returns once it holds the mutex again; the iteration then ends
\* (continue on line 124, or the end of the else branch) and unlocks.
WReacquire ==
    /\ wk.pc = "woken"
    /\ mtx = "none"
    /\ wk' = WkLocals("loop")
    /\ listed' = << >>
    /\ UNCHANGED << cerr, cout, tz, now, ticks, table, lastRowid, events, mtx, running,
                    life, sub, calc >>

Worker ==
    \/ WLoop
    \/ WExamine
    \/ WCalculate
    \/ WReschedule
    \/ WTimeout
    \/ WReacquire

(***************************************************************************)
(* AlarmSystem::~AlarmSystem, run once no caller is inside the object.     *)
(***************************************************************************)
\* Line 10: running = false.
DtorStop ==
    /\ life = "up"
    /\ \A t \in Threads : sub[t].pc \in {"idle", "done", "failed"}
    /\ running' = FALSE
    /\ life' = "stopping"
    /\ listed' = << >>
    /\ UNCHANGED << cerr, cout, tz, now, ticks, table, lastRowid, events, mtx, sub,
                    wk, calc >>

\* Line 11: cv.notify_all().
DtorNotify ==
    /\ life = "stopping"
    /\ wk' = Notify(wk)
    /\ life' = "joining"
    /\ listed' = << >>
    /\ UNCHANGED << cerr, cout, tz, now, ticks, table, lastRowid, events, mtx, running,
                    sub, calc >>

\* Lines 12-14: checker_thread.join() returns once checkAlarms has returned.
DtorJoin ==
    /\ life = "joining"
    /\ wk.pc = "stopped"
    /\ life' = "destroyed"
    /\ listed' = << >>
    /\ UNCHANGED << cerr, cout, tz, now, ticks, table, lastRowid, events, mtx, running,
                    sub, wk, calc >>

Destructor ==
    \/ DtorStop
    \/ DtorNotify
    \/ DtorJoin

(***************************************************************************)
(* The wall clock.                                                         *)
(***************************************************************************)
Tick ==
    /\ ticks < MaxTicks
    /\ life \in {"up", "stopping", "joining"}
    /\ now' = now + TickMinutes
    /\ ticks' = ticks + 1
    /\ listed' = << >>
    /\ UNCHANGED << cerr, cout, tz, table, lastRowid, events, mtx, running, life, sub,
                    wk, calc >>

\* However far away the time point of a cv.wait_until is, the clock reaches
\* it: past the last tick, time still passes for a worker that shutdown
\* finds in a timed wait.
TickToDeadline ==
    /\ ticks = MaxTicks
    /\ ~running
    /\ wk.pc = "waitTimed"
    /\ now < wk.next_event.datetime
    /\ now' = wk.next_event.datetime
    /\ listed' = << >>
    /\ UNCHANGED << cerr, cout, tz, ticks, table, lastRowid, events, mtx, running, life,
                    sub, wk, calc >>

Clock ==
    \/ Tick
    \/ TickToDeadline

(***************************************************************************)
(* The system: callers, the worker, shutdown and the clock.                *)
(***************************************************************************)
Next ==
    \/ Construct
    \/ \E t \in Threads : AddEventInsert(t)
    \/ \E t \in Threads : AddEventFail(t)
    \/ \E t \in Threads : AddEventRowid(t)
    \/ \E t \in Threads : AddEventPush(t)
    \/ \E t \in Threads : AddEventNotify(t)
    \/ List
    \/ WLoop
    \/ WExamine
    \/ WCalculate
    \/ WReschedule
    \/ WTimeout
    \/ WSpurious
    \/ WReacquire
    \/ DtorStop
    \/ DtorNotify
    \/ DtorJoin
    \/ Tick
    \/ TickToDeadline

Spec == Init /\ [][Next]_vars

\* The scheduler runs every thread that can take a step (the worker, and
\* the thread running the destructor), and time passes.  A spurious wakeup
\* is never owed.
FairSpec ==
    Spec /\ WF_vars(Worker) /\ WF_vars(Destructor) /\ WF_vars(Clock)

\* A caller inside addEvent goes on: it reads the row id, pushes once it
\* has the mutex, and notifies.
Callers ==
    \E t \in Threads :
       \/ AddEventRowid(t)
       \/ AddEventPush(t)
       \/ AddEventNotify(t)

\* The system while no shutdown is requested and nobody calls getEvents:
\* callers, the worker and the clock.
SchedNext ==
    \/ Construct
    \/ \E t \in Threads : AddEventInsert(t)
    \/ \E t \in Threads : AddEventFail(t)
    \/ Callers
    \/ Worker
    \/ WSpurious
    \/ Tick

\* The worker and the callers that are inside a call are scheduled.
LiveSpec ==
    Init /\ [][SchedNext]_vars /\ WF_vars(Worker) /\ WF_vars(Callers)

(***************************************************************************)
(* Bootstrap on its own: the constructor run on one saved alarm, at        *)
(* several dates, and a first getEvents.                                   *)
(***************************************************************************)
BootStrings ==
    { <<2023, 11, 1, 10, 0>>, <<2023, 12, 1, 10, 0>>, <<2024, 1, 1, 10, 0>>,
      <<2024, 2, 1, 10, 0>>, <<2024, 3, 1, 10, 0>>, <<2024, 4, 1, 10, 0>>,
      <<2024, 6, 1, 9, 30>>, <<2024, 12, 1, 23, 59>> }

BootRecurrences == {NONE, WEEKLY, MONTHLY, YEARLY}

BootTables ==
    { << AlarmRow(1, <<"saved", "a">>, str, rec) >> :
        str \in BootStrings, rec \in BootRecurrences }

BootClocks ==
    { parseDateTime(<<2024, 1, 1, 10, 0>>), parseDateTime(<<2024, 3, 15, 0, 0>>),
      parseDateTime(<<2024, 10, 31, 12, 0>>), parseDateTime(<<2024, 12, 15, 0, 0>>) }

BootInit ==
    /\ tz \in TimeZones
    /\ now \in BootClocks
    /\ ticks = 0
    /\ table \in BootTables
    /\ lastRowid = 0
    /\ events = << >>
    /\ mtx = "none"
    /\ running = TRUE
    /\ life = "constructing"
    /\ sub = [t \in Threads |-> SubIdle]
    /\ wk = WkInit
    /\ listed = << >>
    /\ calc = CalcIdle
    /\ cout = NoOutput
    /\ cerr = 0

BootNext ==
    \/ Construct
    \/ List

BootSpec == BootInit /\ [][BootNext]_vars

(***************************************************************************)
(* The recurrence calculator on its own: calculateNextOccurrence called    *)
(* on an event, with the clock a given number of minutes past its due      *)
(* time.                                                                   *)
(***************************************************************************)
\* Bound of the model: the clock is up to this many days past the due time.
MaxGapDays == 15

CalcGaps ==
    { k * MinutesPerDay + d : k \in 0..MaxGapDays, d \in {-1, 0, 1} }
    \cup { -2 * MinutesPerDay }

CalcDues ==
    { parseDateTime(<<2024, 3, 30, 9, 0>>), parseDateTime(<<2024, 1, 31, 10, 0>>),
      parseDateTime(<<2024, 12, 20, 23, 59>>) }

\* The request handler casts any integer to RecurrenceType.
CalcRecurrences == {NONE, DAILY, WEEKLY, MONTHLY, YEARLY, 5}

CalcInit ==
    /\ tz \in TimeZones
    /\ now = ClockStart
    /\ ticks = 0
    /\ table = << >>
    /\ lastRowid = 0
    /\ events = << >>
    /\ mtx = "none"
    /\ running = TRUE
    /\ life = "up"
    /\ sub = [t \in Threads |-> SubIdle]
    /\ wk = WkInit
    /\ listed = << >>
    /\ cout = NoOutput
    /\ cerr = 0
    /\ \E due \in CalcDues, gap \in CalcGaps, rec \in CalcRecurrences :
         calc = [pc |-> "called",
                 event |-> AlarmEvent(1, <<"event">>, due, rec),
                 clock |-> due + gap, result |-> 0]

\* The call returns.
CalcReturn ==
    /\ calc.pc = "called"
    /\ calc' = [calc EXCEPT
                  !.pc = "returned",
                  !.result = calculateNextOccurrence(tz, calc.event, calc.clock)]
    /\ UNCHANGED << cerr, cout, tz, now, ticks, table, lastRowid, events, mtx, running,
                    life, sub, wk, listed >>

CalcSpec == CalcInit /\ [][CalcReturn]_vars

(***************************************************************************)
(* One Monthly step on its own: calculateNextOccurrence called on a        *)
(* Monthly event at the minute it is due, for every day of a year.         *)
(***************************************************************************)
\* The number of days of month m of year y.
MonthDays(y, m) ==
    DaysFromCivil(y + m \div 12, (m % 12) + 1, 1) - DaysFromCivil(y, m, 1)

MonthTimes == { <<10, 0>>, <<23, 59>> }

\* The time strings of the days of 2024, at the times above.
MonthStrings ==
    { <<2024, m, d, hm[1], hm[2]>> :
        m \in 1..12, d \in 1..31, hm \in MonthTimes }

MonthInit ==
    /\ tz \in TimeZones
    /\ now = ClockStart
    /\ ticks = 0
    /\ table = << >>
    /\ lastRowid = 0
    /\ events = << >>
    /\ mtx = "none"
    /\ running = TRUE
    /\ life = "up"
    /\ sub = [t \in Threads |-> SubIdle]
    /\ wk = WkInit
    /\ listed = << >>
    /\ cout = NoOutput
    /\ cerr = 0
    /\ \E str \in MonthStrings :
         /\ str[3] <= MonthDays(str[1], str[2])
         /\ calc = [pc |-> "called",
                    event |-> AlarmEvent(1, <<"event">>, parseDateTime(str),
                                         MONTHLY),
                    clock |-> parseDateTime(str), result |-> 0]

MonthSpec == MonthInit /\ [][CalcReturn]_vars


(***************************************************************************)
(* Claims.                                                                 *)
(***************************************************************************)
\* Whether a sequence of events is in non-decreasing order of due time.
SortedByDue(order) ==
    \A i \in 1..(Len(order) - 1) : order[i].datetime <= order[i + 1].datetime

\* The positions of a store or a table that hold this description.
Holding(seq, description) ==
    { i \in 1..Len(seq) : seq[i].description = description }

\* The entries of a getEvents result that show this description.
Showing(list, description) ==
    { i \in 1..Len(list) : list[i][1][1] = description }

\* Every addEvent call has returned to its caller without an exception.
AllReturned == \A t \in Threads : sub[t].pc = "done"

\* Bootstrap found no saved alarm, so the store was empty when the callers
\* began.
StoreWasEmpty ==
    life # "constructing" /\ Holding(table, << "saved", "a" >>) = {}

\* C1: whatever Submit calls, firings and re-insertions came before it, the
\* sequence a List call returns is the store's events in non-decreasing
\* order of due_at.
C1_ListInDueOrder ==
    listed # << >> =>
        /\ listed[1] = ListEntries(tz, Drain(events))
        /\ SortedByDue(Drain(events))

\* C1 witness: a List of two events with different due times, one of them a
\* recurring event that the scheduler has fired and re-inserted.
C1_Witness ==
    /\ listed # << >>
    /\ Len(listed[1]) >= 2
    /\ Drain(events)[1].datetime < Drain(events)[2].datetime
    /\ \E t \in Threads, i \in 1..Len(events) :
         /\ sub[t].pc = "done"
         /\ events[i].description = sub[t].description
         /\ events[i].datetime > sub[t].tp

C3_DistinctIds ==
    /\ \A i, j \in 1..Len(events) : i # j => events[i].id # events[j].id
    /\ \A t \in Threads :
         sub[t].pc \in {"haveId", "pushed", "done"} => sub[t].id = sub[t].rowid

\* C4: once shutdown is requested (running is false and the condition
\* variable has been notified), the worker eventually reaches Stopped and
\* the destructor's join returns.
C4_ShutdownReachesStopped == (life = "joining") ~> (life = "destroyed")

\* C5: a Submit whose persistence write fails ends in an error for its
\* caller and leaves the store as it was: the step that fails changes
\* neither the store nor the table nor the worker (no signal), and no event
\* and no row of the failed call exists afterwards.
C5_FailedWriteLeavesStore ==
    /\ [](\A t \in Threads :
            sub[t].pc = "failed" =>
               /\ Holding(events, sub[t].description) = {}
               /\ Holding(table, sub[t].description) = {})
    /\ [][\A t \in Threads :
            (sub[t].pc # "failed" /\ sub'[t].pc = "failed") =>
               (events' = events /\ table' = table /\ wk' = wk)]_vars

\* C5 witness: one caller's write has failed while the store holds the
\* event of the other and the worker waits.
C5_Witness ==
    \E t \in Threads :
       /\ sub[t].pc = "failed"
       /\ events # << >>
       /\ Waiting(wk)

\* C6: a Submit whose time string is not of the form YYYY-MM-DD HH:MM fails,
\* and neither an event in the store nor a row in the table is created
\* for it.
C6_MalformedRejected ==
    \A t \in Threads :
       (sub[t].pc # "idle" /\ ~WellFormed(sub[t].datetime_str)) =>
          /\ sub[t].pc = "failed"
          /\ Holding(events, sub[t].description) = {}
          /\ Holding(table, sub[t].description) = {}

\* C7: when the scheduler has fired a Daily event due at T before T+24h and
\* the write succeeded, UpdateDueAt was called exactly once in that
\* iteration, with the event's id and T+24h, and the store holds the event
\* (same id, description and recurrence) exactly once, due at T+24h.
C7_DailyReenqueued ==
    (/\ wk.pc = "loop"
     /\ wk.fired.recurrence = DAILY
     /\ wk.updated
     /\ wk.calcNow < wk.fired.datetime + MinutesPerDay) =>
        /\ wk.calls =
             << << wk.fired.id,
                   formatDateTime(tz, wk.fired.datetime + MinutesPerDay) >> >>
        /\ Cardinality({ i \in 1..Len(events) :
                           events[i] = [wk.fired EXCEPT
                                          !.datetime = @ + MinutesPerDay] }) = 1

\* C7 witness: a Daily event fired at the minute it was due, re-inserted
\* after a successful write.
C7_Witness ==
    /\ wk.pc = "loop"
    /\ wk.fired.recurrence = DAILY
    /\ wk.updated
    /\ wk.now = wk.fired.datetime
    /\ wk.calcNow = wk.fired.datetime

\* The period of a recurrence that advances by a fixed duration.
Period(recurrence) ==
    IF recurrence = DAILY THEN MinutesPerDay ELSE 7 * MinutesPerDay

\* C8: for Daily and Weekly, NextOccurrence returns due_at + k * period for
\* the least k >= 0 that makes the result later than now; for None it
\* returns due_at.
C8_LeastPeriodMultiple ==
    calc.pc = "returned" =>
        /\ calc.event.recurrence \in {DAILY, WEEKLY} =>
             /\ calc.result > calc.clock
             /\ \E k \in 0..(MaxGapDays + 2) :
                  /\ calc.result =
                       calc.event.datetime + k * Period(calc.event.recurrence)
                  /\ \/ k = 0
                     \/ calc.result - Period(calc.event.recurrence) <= calc.clock
        /\ calc.event.recurrence = NONE => calc.result = calc.event.datetime

\* C8 witness: a Weekly event two weeks and a minute overdue comes back
\* three periods later.
C8_Witness ==
    /\ calc.pc = "returned"
    /\ calc.event.recurrence = WEEKLY
    /\ calc.clock = calc.event.datetime + 14 * MinutesPerDay + 1
    /\ calc.result = calc.event.datetime + 3 * Period(WEEKLY)

\* The least whole number of b's that is at least a (a >= 0, b > 0).
CeilDiv(a, b) == (a + b - 1) \div b

\* C9 as claimed: for a Daily event with gap = now - due_at >= 0,
\* now < result <= due_at + 24h * ceil(gap / 24h).
C9_CeilBound ==
    (/\ calc.pc = "returned"
     /\ calc.event.recurrence = DAILY
     /\ calc.event.datetime <= calc.clock) =>
        /\ calc.clock < calc.result
        /\ calc.result <=
             calc.event.datetime
             + MinutesPerDay
               * CeilDiv(calc.clock - calc.event.datetime, MinutesPerDay)

\* C9 as amended: for a Daily event with gap = now - due_at >= 0,
\* now < result <= due_at + 24h * (floor(gap / 24h) + 1), which is the
\* claimed bound unless gap is a whole number of days (0 included).
C9_FloorBound ==
    (/\ calc.pc = "returned"
     /\ calc.event.recurrence = DAILY
     /\ calc.event.datetime <= calc.clock) =>
        /\ calc.clock < calc.result
        /\ calc.result <=
             calc.event.datetime
             + MinutesPerDay
               * ((calc.clock - calc.event.datetime) \div MinutesPerDay + 1)
        /\ (calc.clock - calc.event.datetime) % MinutesPerDay # 0 =>
             calc.result <=
                calc.event.datetime
                + MinutesPerDay
                  * CeilDiv(calc.clock - calc.event.datetime, MinutesPerDay)

\* C9 witness: a Daily event exactly two days overdue comes back three days
\* after its due time.
C9_Witness ==
    /\ calc.pc = "returned"
    /\ calc.event.recurrence = DAILY
    /\ calc.clock = calc.event.datetime + 2 * MinutesPerDay
    /\ calc.result = calc.event.datetime + 3 * MinutesPerDay

\* The time point at which the clocks of the zone show the minute count
\* `wall`.
LocalToTime(zone, wall) ==
    IF IsDst(zone, wall - DstSave) THEN wall - DstSave ELSE wall

\* Day 1, at the hour and minute of the time string, of the month k months
\* after the month of the time string.
DayOneAhead(zone, str, k) ==
    LocalToTime(zone,
                DaysFromCivil(str[1] + ((str[2] - 1 + k) \div 12),
                              ((str[2] - 1 + k) % 12) + 1, 1) * MinutesPerDay
                + str[4] * MinutesPerHour + str[5])

RECURSIVE FirstDayOneAfter(_, _, _, _)
FirstDayOneAfter(zone, str, k, clock) ==
    IF DayOneAhead(zone, str, k) > clock
    THEN DayOneAhead(zone, str, k)
    ELSE FirstDayOneAfter(zone, str, k + 1, clock)

\* C10: Bootstrap inserts a saved Monthly event that was due on day 1 of a
\* month at hh:mm, in the past, with due_at on day 1 at hh:mm of the first
\* later month that lies after now.
C10_MonthlyBootstrapDayOne ==
    life = "up" =>
        \A i \in 1..Len(table) :
           (/\ table[i].recurrence = MONTHLY
            /\ table[i].datetime[3] = 1
            /\ parseDateTime(table[i].datetime) <= now) =>
              \E j \in 1..Len(events) :
                 /\ events[j].id = table[i].id
                 /\ events[j].datetime =
                      FirstDayOneAfter(tz, table[i].datetime, 1, now)

\* The process started on the saved rows.
Bootstrapped == life # "constructing" /\ Holding(table, SavedRows[1].description) # {}

\* C11: a saved one-shot event whose due_at is not later than the clock at
\* Bootstrap is not inserted into the store: at no later time is it in the
\* store, in the result of a List, or printed as fired.
C11_ExpiredOneShotDropped ==
    Bootstrapped =>
        \A i \in 1..Len(SavedRows) :
           (/\ SavedRows[i].recurrence = NONE
            /\ parseDateTime(SavedRows[i].datetime) <= ClockStart) =>
              /\ Holding(events, SavedRows[i].description) = {}
              /\ cout[SavedRows[i].description] = 0
              /\ listed # << >> =>
                   Showing(listed[1], SavedRows[i].description) = {}

\* C11 witness: after a start on rows of which two had expired, the clock
\* has run its course, the worker has fired the saved one-shot event that
\* was still to come, and a List shows what is left.
C11_Witness ==
    /\ Bootstrapped
    /\ ticks = MaxTicks
    /\ cout[SavedRows[1].description] = 1
    /\ listed # << >>
    /\ listed[1] # << >>

\* The alarm of this description was created with recurrence None.
IsOneShot(description) ==
    \E i \in 1..Len(table) :
       table[i].description = description /\ table[i].recurrence = NONE

\* C12: a one-shot event is fired at most once, and once fired it is in the
\* store no more and in no List.
C12_OneShotFiredOnce ==
    \A d \in Descriptions :
       IsOneShot(d) =>
          /\ cout[d] <= 1
          /\ cout[d] = 1 =>
               /\ Holding(events, d) = {}
               /\ listed # << >> => Showing(listed[1], d) = {}

\* C12 witness: a List of a store that still holds events, taken after a
\* one-shot event has fired.
C12_Witness ==
    /\ \E d \in Descriptions : IsOneShot(d) /\ cout[d] = 1
    /\ listed # << >>
    /\ listed[1] # << >>

\* The first occurrence of a daily event due at `due` that is later than
\* `clock`, for due <= clock.
FirstAfter(due, clock) ==
    due + ((clock - due) \div MinutesPerDay + 1) * MinutesPerDay

\* How many occurrences of a daily event have come due from `first` up to
\* `clock`.
Occurrences(first, clock) ==
    IF clock < first THEN 0 ELSE (clock - first) \div MinutesPerDay + 1

\* C13: a Daily event overdue by one or more whole periods is fired once for
\* all missed occurrences together.  Reached by the scheduler, it is
\* re-inserted once, with one UpdateDueAt, due at the first occurrence
\* after now.  Found overdue at Bootstrap, it is in the store only with due
\* times after the clock of Bootstrap, and it has fired no more often than
\* occurrences have come due since Bootstrap.
C13_MissedOccurrencesSkipped ==
    /\ (/\ wk.pc = "loop"
        /\ wk.fired.recurrence = DAILY
        /\ wk.updated
        /\ wk.fired.datetime + MinutesPerDay <= wk.calcNow) =>
           /\ Len(wk.calls) = 1
           /\ Cardinality(Holding(events, wk.fired.description)) = 1
           /\ \A i \in Holding(events, wk.fired.description) :
                /\ events[i].datetime > wk.calcNow
                /\ events[i].datetime = FirstAfter(wk.fired.datetime, wk.calcNow)
    /\ Bootstrapped =>
         \A i \in 1..Len(SavedRows) :
            (/\ SavedRows[i].recurrence = DAILY
             /\ parseDateTime(SavedRows[i].datetime) + MinutesPerDay <= ClockStart) =>
               /\ \A j \in Holding(events, SavedRows[i].description) :
                    events[j].datetime > ClockStart
               /\ cout[SavedRows[i].description] <=
                    Occurrences(FirstAfter(parseDateTime(SavedRows[i].datetime),
                                           ClockStart), now)

\* C13 witness: in a process started on a daily row two days overdue, the
\* worker has fired and re-inserted a Daily event a whole day overdue.
C13_Witness ==
    /\ Bootstrapped
    /\ wk.pc = "loop"
    /\ wk.fired.recurrence = DAILY
    /\ wk.updated
    /\ wk.fired.datetime + MinutesPerDay <= wk.calcNow
    /\ cout[SavedRows[4].description] = 0

\* C14: a List changes nothing but the value it returns: store, table,
\* worker, mutex and running flag are what they were, and the value is
\* what a List of the store as it is after the call returns.
C14_ListReadOnly ==
    /\ [](listed # << >> => listed[1] = getEvents(tz, events))
    /\ [][listed' # << >> =>
            /\ events' = events
            /\ table' = table
            /\ wk' = wk
            /\ mtx' = mtx
            /\ running' = running
            /\ cout' = cout]_vars

\* C14 witness: a List of two events taken while the worker sleeps toward
\* the earlier one.
C14_Witness ==
    /\ listed # << >>
    /\ Len(listed[1]) = 2
    /\ wk.pc = "waitTimed"

\* C15: when updateAlarmDateTime has failed for a fired recurring event, the
\* iteration ends with the event absent from the store and the mutex free,
\* the worker at the head of its loop; and the worker leaves the loop only
\* when running is false.
C15_FailedUpdateDropsEvent ==
    /\ (wk.pc = "loop" /\ wk.calls # << >> /\ ~wk.updated) =>
          /\ Holding(events, wk.fired.description) = {}
          /\ mtx = "none"
    /\ wk.pc = "stopped" => ~running

\* C15 witness: a submitted Daily event has fired and is gone from the
\* store (its update had failed), and the worker has since fired another
\* event.
C15_Witness ==
    \E t \in Threads :
       /\ sub[t].pc = "done"
       /\ sub[t].recurrence = DAILY
       /\ cout[sub[t].description] >= 1
       /\ Holding(events, sub[t].description) = {}
       /\ wk.pc = "loop"
       /\ wk.fired.description \notin {<< >>, sub[t].description}

\* A caller has pushed and is about to notify.
NotifyPending == \E t \in Threads : sub[t].pc = "pushed"

\* C16: the wake-up of an insertion is not lost.  While the worker waits
\* on the empty queue, the store is empty or a caller that has pushed is
\* about to notify; while it sleeps toward a due time, no event of the
\* store is due earlier or a caller that has pushed is about to notify.
C16_InsertionWakesWorker ==
    /\ wk.pc = "waitIdle" => (events = << >> \/ NotifyPending)
    /\ wk.pc = "waitTimed" =>
         \/ /\ events # << >>
            /\ Top(events).datetime >= wk.next_event.datetime
         \/ NotifyPending

\* C16 witness: the worker sleeps toward the due time of a submitted event
\* that is the earlier one of two in the store, no notification pending.
C16_Witness ==
    /\ wk.pc = "waitTimed"
    /\ ~NotifyPending
    /\ Len(events) >= 2
    /\ \E t \in Threads :
         /\ sub[t].pc = "done"
         /\ wk.next_event.description = sub[t].description
         /\ \E i \in 1..Len(events) : events[i].datetime > wk.next_event.datetime

\* An event of this description is in the store with its due time reached.
OverdueIn(description) ==
    \E i \in 1..Len(events) :
       events[i].description = description /\ events[i].datetime <= now

\* C17: as long as shutdown is not requested, an event that is in the store
\* with due_at <= now is eventually popped by the worker, whatever else the
\* store holds.
C17_OverdueEventuallyPopped ==
    \A d \in Descriptions :
       (OverdueIn(d) /\ running) ~> (~OverdueIn(d) \/ ~running)

\* C17 witness: two events are overdue in the store at once while the worker
\* holds the mutex to update a third.
C17_Witness ==
    /\ running
    /\ wk.pc = "updating"
    /\ Cardinality({ d \in Descriptions : OverdueIn(d) }) >= 2

\* C18: once running is false, the worker prints no ALARM line, pops no
\* event and makes no updateAlarmDateTime call.
C18_NoFiringAfterShutdown ==
    [][~running =>
          /\ cout' = cout
          /\ Len(events') >= Len(events)
          /\ (wk'.calls = wk.calls \/ wk'.calls = << >>)]_vars

\* C19: a thread that is inside a persistence call (updateAlarmDateTime in
\* the worker, addAlarm in a caller, loadAlarms in the constructor) does not
\* hold the mutex.
C19_NoLockAcrossPersistence ==
    /\ wk.pc = "updating" => mtx # "worker"
    /\ \A t \in Threads : sub[t].pc = "stepped" => mtx # t
    /\ life = "constructing" => mtx = "none"

\* C20: while the worker is blocked in cv.wait or cv.wait_until, the mutex is
\* free (it is all a getEvents call needs), and the push of a caller that
\* has its row id can run.
C20_WaitHoldsNoLock ==
    Waiting(wk) =>
        /\ mtx = "none"
        /\ \A t \in Threads : sub[t].pc = "haveId" => ENABLED AddEventPush(t)

\* C20 witness: the worker sleeps toward a due time not yet reached; during
\* the sleep a caller has pushed its event and a List has returned.
C20_Witness ==
    /\ wk.pc = "waitTimed"
    /\ now < wk.next_event.datetime
    /\ \E t \in Threads : sub[t].pc = "pushed"
    /\ listed # << >>

\* How often an event occurs in a store.
Count(heap, event) == Cardinality({ i \in 1..Len(heap) : heap[i] = event })

\* C21: a step that prints an ALARM line or takes an event out of the store
\* is the worker's pop; the event it fires is in the store, is due
\* (due_at <= now), no event of the store is due earlier, and the step
\* removes that one entry and nothing else.
C21_FiresEarliestDue ==
    [][(cout' # cout \/ Len(events') < Len(events)) =>
          /\ wk.pc = "lock"
          /\ Count(events, wk'.fired) >= 1
          /\ wk'.fired.datetime <= now
          /\ \A i \in 1..Len(events) : events[i].datetime >= wk'.fired.datetime
          /\ Len(events') = Len(events) - 1
          /\ \A i \in 1..Len(events) :
               Count(events', events[i]) =
                  Count(events, events[i])
                  - (IF events[i] = wk'.fired THEN 1 ELSE 0)]_vars

\* C21 witness: the worker has just fired a recurring event while the store
\* holds two more events, one of them due later and not yet due.
C21_Witness ==
    /\ wk.pc = "fired"
    /\ wk.fired.datetime <= now
    /\ Len(events) >= 2
    /\ \E i \in 1..Len(events) : events[i].datetime > now

\* C22: one Monthly step (the event is due at the clock's minute, so the
\* loop advances once) yields a time in the following calendar month, in
\* January of the next year after December, with the day of the month, the
\* hour and the minute it had before, whatever the day of the month.
C22_MonthlyStepKeepsDay ==
    (/\ calc.pc = "returned"
     /\ calc.event.recurrence = MONTHLY
     /\ calc.clock = calc.event.datetime) =>
        \E before \in { localtime(tz, calc.event.datetime) } :
           \E after \in { localtime(tz, calc.result) } :
              /\ after.tm_year = NextMonthTm(before).tm_year
              /\ after.tm_mon = NextMonthTm(before).tm_mon
              /\ after.tm_mday = before.tm_mday
              /\ after.tm_hour = before.tm_hour
              /\ after.tm_min = before.tm_min

\* The worker is between the pop of a recurring event and the end of that
\* iteration.
MidIteration == wk.pc \in {"fired", "updating"}

\* C23: whenever the worker is not in the middle of an iteration, every
\* event of the store is due at the minute its row in table alarms (the row
\* of its id) says, read as the program reads it.
C23_StoreMatchesRecords ==
    (life # "constructing" /\ ~MidIteration) =>
        \A i \in 1..Len(events) :
           \E j \in 1..Len(table) :
              /\ table[j].id = events[i].id
              /\ parseDateTime(table[j].datetime) = events[i].datetime

\* The descriptions of the recurring events that Bootstrap or a Submit has
\* put into the store.
InsertedRecurring ==
    { d \in Descriptions :
        \E i \in 1..Len(table) :
           /\ table[i].description = d
           /\ table[i].recurrence # NONE
           /\ \/ d[1] = "saved" /\ life \notin {"constructing", "constructFailed"}
              \/ \E t \in Threads :
                    d = << "by", t >> /\ sub[t].pc \in {"pushed", "done"} }

\* C24: between the pop of a recurring event and its re-insertion the worker
\* holds the mutex, so that no getEvents snapshot is taken and no Submit
\* pushes in between; and as long as no re-persist has failed, every
\* snapshot shows each recurring event that was inserted exactly once.
C24_ReinsertionAtomic ==
    /\ MidIteration =>
         /\ mtx = "worker"
         /\ listed = << >>
         /\ \A t \in Threads :
              sub[t].pc = "haveId" => ~ENABLED AddEventPush(t)
    /\ (listed # << >> /\ cerr = 0) =>
         \A d \in InsertedRecurring :
            Cardinality(Showing(listed[1], d)) = 1

\* C24 witness: a snapshot taken right after the worker has fired a
\* recurring event, re-persisted it and pushed it back; the snapshot shows
\* the event once.
C24_Witness ==
    /\ listed # << >>
    /\ wk.pc = "loop"
    /\ wk.updated
    /\ wk.fired.recurrence # NONE
    /\ Cardinality(Showing(listed[1], wk.fired.description)) = 1
    /\ Len(listed[1]) >= 2

\* C25: when the worker has re-inserted a fired event, whatever its
\* recurrence value, the due time it re-inserted is later than the `now` at
\* which it fired the event.
C25_ReinsertedAfterNow ==
    (wk.pc = "loop" /\ wk.fired # NoEvent /\ wk.updated) =>
        /\ wk.next_event.datetime > wk.now
        /\ \A i \in 1..Len(events) :
             events[i].description = wk.fired.description =>
                events[i].datetime > wk.now

\* The sum of the counts of a set of descriptions.
RECURSIVE LinesOf(_)
LinesOf(descriptions) ==
    IF descriptions = {} THEN 0
    ELSE LET d == CHOOSE d \in descriptions : TRUE
         IN  cout[d] + LinesOf(descriptions \ {d})

\* The events Bootstrap has inserted: the saved rows that recur or were
\* still to come.
LoadedCount ==
    IF Bootstrapped /\ life # "constructFailed"
    THEN Cardinality({ i \in 1..Len(SavedRows) :
                         \/ SavedRows[i].recurrence # NONE
                         \/ parseDateTime(SavedRows[i].datetime) > ClockStart })
    ELSE 0

\* The Submit calls that have inserted their event.
SubmittedCount == Cardinality({ t \in Threads : sub[t].pc \in {"pushed", "done"} })

\* The one-shot events fired.
OneShotsFired == LinesOf({ d \in Descriptions : IsOneShot(d) })

\* C26 as claimed: in every reachable state the store has as many entries
\* as Bootstrap and the Submit calls have inserted, less the one-shot
\* events fired and the recurring events dropped after a failed UpdateDueAt.
C26_StoreCountConserved ==
    Len(events) = LoadedCount + SubmittedCount - OneShotsFired - cerr

\* C26 as amended: the count holds in every state in which the worker is
\* not between the pop of a recurring event and the end of that iteration;
\* in between, with the mutex held, the store has one entry fewer.
C26_StoreCountConservedBetweenIterations ==
    Len(events) + (IF MidIteration THEN 1 ELSE 0) =
        LoadedCount + SubmittedCount - OneShotsFired - cerr

\* C26 witness: the worker is between iterations after saved events were
\* loaded, a Submit has inserted its event, a one-shot event has fired and a
\* recurring event was dropped after a failed write.
C26_Witness ==
    /\ ~MidIteration
    /\ LoadedCount > 0
    /\ SubmittedCount > 0
    /\ OneShotsFired > 0
    /\ cerr > 0
    /\ events # << >>

=============================================================================
